---- MODULE Spec2Model ----
(***************************************************************************)
(* Model of the two SAT reductions of Ex2: the NFA acceptance pipeline     *)
(* (Ex2/NFA) and the teacher/subject set-cover pipeline (Ex2/SET-COVER).   *)
(* Strings are sequences of one-character strings, so that formatting      *)
(* (f"{state}_{time}", str(int)) and parsing (split, int) are computed.    *)
(***************************************************************************)
EXTENDS Integers, Sequences, FiniteSets, TLC

VARIABLES
    prog,       \* which main.py runs: "nfa", "sc", or "interner" (get_var alone)
    pc,         \* position of main() in its pipeline
    inp,        \* the parsed input data (json.load)
    obj,        \* the constructed problem object (NFA / TeacherSubjectSetCover)
    order,      \* iteration order of the set-cover sets in this process
    gen,        \* CNFGenerator: [var_map, next_var, clauses]
    t,          \* loop index of generate_cnf
    cnf_file,   \* text of the DIMACS file (<<>>: not written)
    txt_file,   \* text of the human-readable file
    written,    \* names of the output files that exist
    model,      \* the solver's model (list of signed literals)
    result,     \* [sat, answer] returned by solve()
    exit,       \* "running", "ok", "ValueError", "Exception"
    hist,       \* the last get_var call observed: its name, what it returned,
                \* the generator before it, and the names asked for so far
    frame       \* locals of generate_cnf when it is followed call by call

vars == <<prog, pc, inp, obj, order, gen, t, cnf_file, txt_file, written,
          model, result, exit, hist, frame>>

(***************************************************************************)
(* Bounds of the model.                                                    *)
(***************************************************************************)
MaxWordLen == 2
MaxK == 3

(***************************************************************************)
(* Strings.                                                                *)
(***************************************************************************)
DigitChars == <<"0", "1", "2", "3", "4", "5", "6", "7", "8", "9">>

Range(s) == {s[i] : i \in DOMAIN s}

RECURSIVE NatStr(_)
\* str(n) for n >= 0
NatStr(n) ==
    IF n < 10 THEN <<DigitChars[n + 1]>>
    ELSE NatStr(n \div 10) \o <<DigitChars[(n % 10) + 1]>>

\* str(i) for an int
IntStr(i) == IF i < 0 THEN <<"-">> \o NatStr(-i) ELSE NatStr(i)

DigitVal(c) == CHOOSE d \in 0..9 : DigitChars[d + 1] = c

RECURSIVE StrNat(_)
\* int(s) for a string of digits
StrNat(s) ==
    IF Len(s) = 0 THEN 0
    ELSE 10 * StrNat(SubSeq(s, 1, Len(s) - 1)) + DigitVal(s[Len(s)])

\* int(s): an optional sign and digits
StrInt(s) == IF s[1] = "-" THEN 0 - StrNat(Tail(s)) ELSE StrNat(s)

RECURSIVE Split(_, _)
\* s.split(sep) for a one-character separator: empty parts are kept
Split(s, sep) ==
    IF \A i \in DOMAIN s : s[i] # sep THEN <<s>>
    ELSE LET i == CHOOSE j \in DOMAIN s :
                      s[j] = sep /\ \A k \in 1..(j - 1) : s[k] # sep
         IN  <<SubSeq(s, 1, i - 1)>> \o Split(SubSeq(s, i + 1, Len(s)), sep)

\* s.split(): split on runs of blanks, empty parts dropped
SplitBlank(s) == SelectSeq(Split(s, " "), LAMBDA p : Len(p) > 0)

RECURSIVE Join(_, _)
\* sep.join(parts)
Join(parts, sep) ==
    IF Len(parts) = 0 THEN <<>>
    ELSE IF Len(parts) = 1 THEN parts[1]
    ELSE parts[1] \o sep \o Join(Tail(parts), sep)

Perms(S) == {p \in [1..Cardinality(S) -> S] : Range(p) = S}

(***************************************************************************)
(* Clause store and interner shared by both generators.                    *)
(***************************************************************************)
EmptyMap == [n \in {} |-> 0]

\* CNFGenerator.__init__
NewGenerator == [var_map |-> EmptyMap, next_var |-> 1, clauses |-> <<>>]

\* get_var without "self.next_var += 1"
Intern_no_increment(g, var_name) ==
    IF var_name \notin DOMAIN g.var_map
    THEN [g EXCEPT !.var_map = [n \in (DOMAIN g.var_map) \cup {var_name} |->
                                   IF n = var_name THEN g.next_var
                                   ELSE g.var_map[n]]]
    ELSE g

\* get_var with "self.next_var += 1" before the assignment to var_map
Intern_increment_first(g, var_name) ==
    IF var_name \notin DOMAIN g.var_map
    THEN [g EXCEPT !.var_map = [n \in (DOMAIN g.var_map) \cup {var_name} |->
                                   IF n = var_name THEN g.next_var + 1
                                   ELSE g.var_map[n]],
                   !.next_var = g.next_var + 1]
    ELSE g

\* the interning part of get_var: var_map/next_var after looking var_name up
Intern(g, var_name) ==
    IF var_name \notin DOMAIN g.var_map
    THEN [g EXCEPT !.var_map = [n \in (DOMAIN g.var_map) \cup {var_name} |->
                                   IF n = var_name THEN g.next_var
                                   ELSE g.var_map[n]],
                   !.next_var = g.next_var + 1]
    ELSE g

\* add_clause
add_clause(g, clause) == [g EXCEPT !.clauses = Append(g.clauses, clause)]

\* get_var_mapping: {v: k for k, v in var_map.items()}
get_var_mapping(g) ==
    [v \in {g.var_map[n] : n \in DOMAIN g.var_map} |->
        CHOOSE n \in DOMAIN g.var_map : g.var_map[n] = v]

RECURSIVE AllPairs(_, _)
\* the index pairs (i, j), i < j <= m, in the order of the nested loops
AllPairs(i, m) ==
    IF i >= m THEN <<>>
    ELSE [k \in 1..(m - i) |-> <<i, i + k>>] \o AllPairs(i + 1, m)

\* the pairwise at-most-one clauses over a list of variables
AtMostOne(vs) ==
    LET P == AllPairs(1, Len(vs))
    IN  [k \in 1..Len(P) |-> <<0 - vs[P[k][1]], 0 - vs[P[k][2]]>>]

RECURSIVE AddClauses(_, _)
AddClauses(g, cs) ==
    IF Len(cs) = 0 THEN g ELSE AddClauses(add_clause(g, Head(cs)), Tail(cs))

(***************************************************************************)
(* Satisfiability, as decided by the external solver.                      *)
(***************************************************************************)
\* literal l is true when exactly the variables of A are true
LitTrue(A, l) == IF l > 0 THEN l \in A ELSE (0 - l) \notin A

Satisfies(A, cs) ==
    \A i \in DOMAIN cs : \E j \in DOMAIN cs[i] : LitTrue(A, cs[i][j])

\* the satisfying assignments of a formula [nv, clauses]
Models(f) == {A \in SUBSET (1..f.nv) : Satisfies(A, f.clauses)}

\* solver.get_model(): one signed literal per variable
ModelList(A, nv) == [i \in 1..nv |-> IF i \in A THEN i ELSE 0 - i]

(***************************************************************************)
(* Ex2/NFA: nfa.py                                                         *)
(***************************************************************************)
\* NFA._validate_structure: TRUE when no ValueError is raised
NFA_validate_structure(n) ==
    /\ Range(n.initial_states) \subseteq Range(n.states)
    /\ Range(n.final_states) \subseteq Range(n.states)
    /\ \A s \in DOMAIN n.transitions :
          /\ s \in Range(n.states)
          /\ \A sym \in DOMAIN n.transitions[s] :
                /\ sym \in Range(n.alphabet)
                /\ Range(n.transitions[s][sym]) \subseteq Range(n.states)

\* NFA.get_next_states
get_next_states(n, current_state, symbol) ==
    IF current_state \notin DOMAIN n.transitions THEN <<>>
    ELSE IF symbol \in DOMAIN n.transitions[current_state]
         THEN n.transitions[current_state][symbol]
         ELSE <<>>

RECURSIVE dfs(_, _, _)
\* the inner dfs of NFA.accepts
dfs(n, current_state, remaining_input) ==
    IF Len(remaining_input) = 0 THEN current_state \in Range(n.final_states)
    ELSE LET nexts == get_next_states(n, current_state, Head(remaining_input))
         IN  \E i \in DOMAIN nexts : dfs(n, nexts[i], Tail(remaining_input))

\* NFA.accepts
accepts(n, input_string) ==
    \E i \in DOMAIN n.initial_states : dfs(n, n.initial_states[i], input_string)

(***************************************************************************)
(* Ex2/NFA: cnf_generator.py                                               *)
(***************************************************************************)
\* the variable name built by get_var: f"{state}_{time}"
NFA_var_name(state, time) == state \o <<"_">> \o NatStr(time)

\* CNFGenerator.get_var (NFA): the generator after the call
NFA_get_var(g, state, time) == Intern(g, NFA_var_name(state, time))

\* what that call returns
NFA_var(g, state, time) ==
    NFA_get_var(g, state, time).var_map[NFA_var_name(state, time)]

RECURSIVE NFA_get_vars(_, _, _)
\* [self.get_var(s, time) for s in states]: generator and list of variables
NFA_get_vars(g, states, time) ==
    IF Len(states) = 0 THEN [g |-> g, vs |-> <<>>]
    ELSE LET g1 == NFA_get_var(g, Head(states), time)
             v == NFA_var(g, Head(states), time)
             r == NFA_get_vars(g1, Tail(states), time)
         IN  [g |-> r.g, vs |-> <<v>> \o r.vs]

\* generate_cnf, initial states: at least one, at most one
NFA_gen_initial(g, n) ==
    LET r == NFA_get_vars(g, n.initial_states, 0)
    IN  AddClauses(add_clause(r.g, r.vs), AtMostOne(r.vs))

RECURSIVE NFA_gen_transition_from(_, _, _, _, _)
\* generate_cnf, transition clauses of time tm for states[i..]
NFA_gen_transition_from(g, n, word, tm, i) ==
    IF i > Len(n.states) THEN g
    ELSE LET state == n.states[i]
             g1 == NFA_get_var(g, state, tm)
             current_var == NFA_var(g, state, tm)
             r == NFA_get_vars(g1, get_next_states(n, state, word[tm + 1]), tm + 1)
             g2 == IF Len(r.vs) > 0
                   THEN add_clause(r.g, <<0 - current_var>> \o r.vs)
                   ELSE r.g
         IN  NFA_gen_transition_from(g2, n, word, tm, i + 1)

NFA_gen_transition(g, n, word, tm) == NFA_gen_transition_from(g, n, word, tm, 1)

\* generate_cnf, exactly one state active at time tm
NFA_gen_exactly_one(g, n, tm) ==
    LET r == NFA_get_vars(g, n.states, tm)
    IN  AddClauses(add_clause(r.g, r.vs), AtMostOne(r.vs))

\* generate_cnf, acceptance clause
NFA_gen_acceptance(g, n, length) ==
    LET r == NFA_get_vars(g, n.final_states, length)
    IN  add_clause(r.g, r.vs)

RECURSIVE NFA_gen_transitions(_, _, _, _)
\* generate_cnf: the loop "for t in range(self.length)" from tm on
NFA_gen_transitions(g, n, word, tm) ==
    IF tm >= Len(word) THEN g
    ELSE NFA_gen_transitions(NFA_gen_transition(g, n, word, tm), n, word, tm + 1)

RECURSIVE NFA_gen_exactly_ones(_, _, _, _)
\* generate_cnf: the loop "for t in range(self.length + 1)" from tm on
NFA_gen_exactly_ones(g, n, word, tm) ==
    IF tm >= Len(word) + 1 THEN g
    ELSE NFA_gen_exactly_ones(NFA_gen_exactly_one(g, n, tm), n, word, tm + 1)

\* generate_cnf (NFA) as a whole
NFA_generate_cnf(g, n, word) ==
    NFA_gen_acceptance(
        NFA_gen_exactly_ones(
            NFA_gen_transitions(NFA_gen_initial(g, n), n, word, 0), n, word, 0),
        n, Len(word))

RECURSIVE Concat(_)
\* the concatenation of a list of strings
Concat(ss) == IF Len(ss) = 0 THEN <<>> ELSE Head(ss) \o Concat(Tail(ss))

\* one clause line of write_dimacs: " ".join(map(str, clause)) + " 0\n"
NFA_dimacs_line(clause) ==
    Join([i \in DOMAIN clause |-> IntStr(clause[i])], <<" ">>) \o <<" ", "0", "\n">>

\* write_dimacs with "num_vars = self.next_var"
NFA_write_dimacs_next_var(g) ==
    LET num_vars == g.next_var
        num_clauses == Len(g.clauses)
    IN  <<"p", " ", "c", "n", "f", " ">> \o IntStr(num_vars) \o <<" ">>
            \o IntStr(num_clauses) \o <<"\n">>
            \o Concat([i \in DOMAIN g.clauses |-> NFA_dimacs_line(g.clauses[i])])

\* CNFGenerator.write_dimacs (NFA): the text written to the file
NFA_write_dimacs(g) ==
    LET num_vars == g.next_var - 1
        num_clauses == Len(g.clauses)
    IN  <<"p", " ", "c", "n", "f", " ">> \o IntStr(num_vars) \o <<" ">>
            \o IntStr(num_clauses) \o <<"\n">>
            \o Concat([i \in DOMAIN g.clauses |-> NFA_dimacs_line(g.clauses[i])])

\* formula[:-3]
DropLast3(s) == SubSeq(s, 1, Len(s) - 3)

\* one clause of write_pretty; "|" stands for the disjunction sign and "&"
\* for the conjunction sign of the source
NFA_pretty_clause(g, clause) ==
    LET var_mapping == get_var_mapping(g)
        lit(v) == (IF v > 0 THEN <<>> ELSE <<"-">>)
                      \o var_mapping[IF v < 0 THEN 0 - v ELSE v]
    IN  <<"(">> \o Join([i \in DOMAIN clause |-> lit(clause[i])], <<" ", "|", " ">>)
            \o <<")", " ", "&", "\n">>

\* CNFGenerator.write_pretty (NFA): the text written to the file
NFA_write_pretty(g) ==
    DropLast3(Concat([i \in DOMAIN g.clauses |-> NFA_pretty_clause(g, g.clauses[i])]))

(***************************************************************************)
(* The solver boundary: reading the exchange format back.                  *)
(***************************************************************************)
RECURSIVE RStrip(_)
\* line.rstrip()
RStrip(s) ==
    IF Len(s) > 0 /\ s[Len(s)] \in {" ", "\n"}
    THEN RStrip(SubSeq(s, 1, Len(s) - 1))
    ELSE s

\* the non-empty lines of the file, right-stripped
FileLines(text) ==
    LET ls == Split(text, "\n")
    IN  SelectSeq([i \in DOMAIN ls |-> RStrip(ls[i])], LAMBDA l : Len(l) > 0)

\* CNF(from_file=cnf_file): "p" lines give the header, other lines a clause
\* each: the integers of line.split() without the closing 0
ReadDimacs(text) ==
    LET ls == FileLines(text)
        hs == SelectSeq(ls, LAMBDA l : l[1] = "p")
        cls == SelectSeq(ls, LAMBDA l : l[1] \notin {"p", "c"})
        toks(l) == SplitBlank(l)
        ints(l) == [i \in 1..(Len(toks(l)) - 1) |-> StrInt(toks(l)[i])]
    IN  [nv |-> StrInt(toks(hs[1])[3]),
         nclauses |-> StrInt(toks(hs[1])[4]),
         clauses |-> [i \in DOMAIN cls |-> ints(cls[i])]]

(***************************************************************************)
(* Ex2/NFA: solver.py                                                      *)
(***************************************************************************)
\* true_vars of a model
TrueVars(m) == {m[i] : i \in {j \in DOMAIN m : m[j] > 0}}

\* _extract_path raises ValueError: a name does not split into two parts
NFA_extract_raises(m, var_mapping) ==
    \E v \in TrueVars(m) : Len(Split(var_mapping[v], "_")) # 2

\* time_state_map of _extract_path; the set of small ints is visited in
\* increasing order, so the greatest variable of a time step is kept
NFA_time_state_map(m, var_mapping) ==
    LET time(v) == StrNat(Split(var_mapping[v], "_")[2])
        state(v) == Split(var_mapping[v], "_")[1]
        times == {time(v) : v \in TrueVars(m)}
        last(tm) == CHOOSE v \in TrueVars(m) :
                        /\ time(v) = tm
                        /\ \A w \in TrueVars(m) : time(w) = tm => w <= v
    IN  [tm \in times |-> state(last(tm))]

\* the final loop of _extract_path raises KeyError
NFA_path_key_error(tsm) ==
    \E i \in 0..(Cardinality(DOMAIN tsm) - 1) : i \notin DOMAIN tsm

\* NFASolver._extract_path: the path
NFA_extract_path(m, var_mapping) ==
    LET tsm == NFA_time_state_map(m, var_mapping)
    IN  [i \in 1..Cardinality(DOMAIN tsm) |-> tsm[i - 1]]

(***************************************************************************)
(* Inputs of the NFA pipeline.                                             *)
(***************************************************************************)
\* the second state of an input is named "q" or "q_1"
SecondNames == {<<"q">>, <<"q", "_", "1">>}

\* lists of names over the first state "p" and a second state x
NameLists(x) == {<<>>, << <<"p">> >>, <<x>>, << <<"p">>, x >>}

\* the transitions of one state: none, on "a", or on a symbol "b" that
\* is not in the alphabet
StateDicts(x) ==
    {<<>>} \cup {("a" :> N) : N \in NameLists(x)} \cup {("b" :> << <<"p">> >>)}

TransitionDicts(x) ==
    UNION {[K -> StateDicts(x)] : K \in SUBSET {<<"p">>, x}}

RECURSIVE Words(_)
\* the words over {"a", "b"} of length at most n
Words(n) ==
    IF n = 0 THEN {<<>>}
    ELSE Words(n - 1) \cup
         {Append(w, c) : w \in {v \in Words(n - 1) : Len(v) = n - 1}, c \in {"a", "b"}}

NFA_Inputs ==
    UNION {
      [states : {<< <<"p">> >>, << <<"p">>, x >>},
       alphabet : {<<"a">>},
       transitions : TransitionDicts(x),
       initial_states : NameLists(x),
       final_states : NameLists(x),
       input_string : Words(MaxWordLen)] : x \in SecondNames}

NoResult == [sat |-> FALSE, answer |-> <<>>]

\* generate_cnf not entered: no list being built, no loop index
NoFrame == [at |-> "idle", i |-> 0, j |-> 0, vs |-> <<>>, cur |-> 0]

\* no get_var call observed yet
NoHist == [name |-> <<>>, ret |-> 0, raised |-> FALSE, before |-> NewGenerator,
           seen |-> {}]

InitNFA ==
    /\ prog = "nfa"
    /\ pc = "construct"
    /\ inp \in NFA_Inputs
    /\ obj = <<>>
    /\ order = <<>>
    /\ gen = NewGenerator
    /\ t = 0
    /\ cnf_file = <<>>
    /\ txt_file = <<>>
    /\ written = {}
    /\ model = <<>>
    /\ result = NoResult
    /\ exit = "running"
    /\ hist = NoHist
    /\ frame = NoFrame

(***************************************************************************)
(* Ex2/NFA: main.py                                                        *)
(***************************************************************************)
\* sys.exit(1) from one of the except clauses of main
Abort(kind) ==
    /\ pc' = "exit"
    /\ exit' = kind

\* nfa = NFA.from_dict(data['nfa'])
NFA_Construct ==
    /\ prog = "nfa" /\ pc = "construct"
    /\ LET n == [states |-> inp.states, alphabet |-> inp.alphabet,
                 transitions |-> inp.transitions,
                 initial_states |-> inp.initial_states,
                 final_states |-> inp.final_states]
       IN  IF NFA_validate_structure(n)
           THEN /\ obj' = n
                /\ pc' = "validate_input"
                /\ exit' = exit
           ELSE /\ Abort("ValueError")
                /\ obj' = obj
    /\ UNCHANGED <<frame, prog, inp, order, gen, t, cnf_file, txt_file, written,
                   model, result, hist>>

\* if not all(c in nfa.alphabet for c in input_string): raise ValueError
\* generator = CNFGenerator(nfa, input_string)
NFA_ValidateInput ==
    /\ prog = "nfa" /\ pc = "validate_input"
    /\ IF \A i \in DOMAIN inp.input_string :
              inp.input_string[i] \in Range(obj.alphabet)
       THEN /\ pc' = "gen_initial"
            /\ gen' = NewGenerator
            /\ exit' = exit
       ELSE /\ Abort("ValueError")
            /\ gen' = gen
    /\ UNCHANGED <<frame, prog, inp, obj, order, t, cnf_file, txt_file, written,
                   model, result, hist>>

\* generate_cnf: the initial-state clauses
NFA_GenInitial ==
    /\ prog = "nfa" /\ pc = "gen_initial"
    /\ gen' = NFA_gen_initial(gen, obj)
    /\ t' = 0
    /\ pc' = IF Len(inp.input_string) = 0 THEN "gen_exactly_one"
             ELSE "gen_transition"
    /\ UNCHANGED <<frame, prog, inp, obj, order, cnf_file, txt_file, written,
                   model, result, exit, hist>>

\* generate_cnf: one pass of the loop over t of the transition clauses
NFA_GenTransition ==
    /\ prog = "nfa" /\ pc = "gen_transition"
    /\ gen' = NFA_gen_transition(gen, obj, inp.input_string, t)
    /\ IF t + 1 < Len(inp.input_string)
       THEN t' = t + 1 /\ pc' = pc
       ELSE t' = 0 /\ pc' = "gen_exactly_one"
    /\ UNCHANGED <<frame, prog, inp, obj, order, cnf_file, txt_file, written,
                   model, result, exit, hist>>

\* generate_cnf: one pass of the loop over t of the exactly-one clauses
NFA_GenExactlyOne ==
    /\ prog = "nfa" /\ pc = "gen_exactly_one"
    /\ gen' = NFA_gen_exactly_one(gen, obj, t)
    /\ IF t + 1 < Len(inp.input_string) + 1
       THEN t' = t + 1 /\ pc' = pc
       ELSE t' = Len(inp.input_string) /\ pc' = "gen_acceptance"
    /\ UNCHANGED <<frame, prog, inp, obj, order, cnf_file, txt_file, written,
                   model, result, exit, hist>>

\* generate_cnf: the acceptance clause
NFA_GenAcceptance ==
    /\ prog = "nfa" /\ pc = "gen_acceptance"
    /\ gen' = NFA_gen_acceptance(gen, obj, Len(inp.input_string))
    /\ pc' = "write_dimacs"
    /\ UNCHANGED <<frame, prog, inp, obj, order, t, cnf_file, txt_file, written,
                   model, result, exit, hist>>

\* generator.write_dimacs(output_cnf)
NFA_WriteDimacs ==
    /\ prog = "nfa" /\ pc = "write_dimacs"
    /\ cnf_file' = NFA_write_dimacs(gen)
    /\ written' = written \cup {"cnf"}
    /\ pc' = "write_pretty"
    /\ UNCHANGED <<frame, prog, inp, obj, order, gen, t, txt_file, model, result,
                   exit, hist>>

\* generator.write_pretty(output_human_readable)
NFA_WritePretty ==
    /\ prog = "nfa" /\ pc = "write_pretty"
    /\ txt_file' = NFA_write_pretty(gen)
    /\ written' = written \cup {"txt"}
    /\ pc' = "solve"
    /\ UNCHANGED <<frame, prog, inp, obj, order, gen, t, cnf_file, model, result,
                   exit, hist>>

\* solver = NFASolver(output_cnf, generator.get_var_mapping())
\* is_satisfiable, path = solver.solve()
NFA_Solve ==
    /\ prog = "nfa" /\ pc = "solve"
    /\ LET formula == ReadDimacs(cnf_file)
           var_mapping == get_var_mapping(gen)
       IN  IF Models(formula) = {}
           THEN /\ model' = model
                /\ result' = [sat |-> FALSE, answer |-> <<>>]
                /\ pc' = "report"
                /\ exit' = exit
           ELSE \E A \in Models(formula) :
                  LET m == ModelList(A, formula.nv)
                  IN  /\ model' = m
                      /\ IF NFA_extract_raises(m, var_mapping)
                         THEN /\ Abort("ValueError")
                              /\ result' = result
                         ELSE IF NFA_path_key_error(
                                     NFA_time_state_map(m, var_mapping))
                         THEN /\ Abort("Exception")
                              /\ result' = result
                         ELSE /\ result' = [sat |-> TRUE,
                                    answer |-> NFA_extract_path(m, var_mapping)]
                              /\ pc' = "report"
                              /\ exit' = exit
    /\ UNCHANGED <<frame, prog, inp, obj, order, gen, t, cnf_file, txt_file,
                   written, hist>>

\* the printed results and the cross-check against nfa.accepts
NFA_Report ==
    /\ prog = "nfa" /\ pc = "report"
    /\ pc' = "done"
    /\ exit' = "ok"
    /\ UNCHANGED <<frame, prog, inp, obj, order, gen, t, cnf_file, txt_file,
                   written, model, result, hist>>

NextNFA ==
    \/ NFA_Construct
    \/ NFA_ValidateInput
    \/ NFA_GenInitial
    \/ NFA_GenTransition
    \/ NFA_GenExactlyOne
    \/ NFA_GenAcceptance
    \/ NFA_WriteDimacs
    \/ NFA_WritePretty
    \/ NFA_Solve
    \/ NFA_Report

SpecNFA == InitNFA /\ [][NextNFA]_vars

(***************************************************************************)
(* Ex2/SET-COVER: teacher_subject_set_cover.py                             *)
(***************************************************************************)
\* Teacher.from_dict: name and set(data['subjects'])
Teacher_from_dict(data) == [name |-> data.name, subjects |-> Range(data.subjects)]

\* TeacherSubjectSetCover.from_dict: the set comprehension over the teacher
\* records (equal Teacher objects, same name and same subjects, are one
\* element), set(data['subjects']) and k
SC_from_dict(data) ==
    [teachers |-> {Teacher_from_dict(data.teachers[i]) : i \in DOMAIN data.teachers},
     subjects |-> Range(data.subjects),
     k |-> data.k]

\* TeacherSubjectSetCover._validate_structure: TRUE when no ValueError is raised
SC_validate_structure(p) ==
    LET teacher_names == {tc.name : tc \in p.teachers}
    IN  /\ Cardinality(p.teachers) = Cardinality(teacher_names)
        /\ Cardinality(p.teachers) # 0
        /\ ~(p.k <= 0)

(***************************************************************************)
(* Ex2/SET-COVER: cnf_generator.py                                         *)
(***************************************************************************)
\* get_var raises ValueError for a type other than 'x' and 'y'
SC_get_var_raises(type) == type \notin {"x", "y"}

\* the variable name built by get_var
SC_var_name(type, args) ==
    IF type = "x" THEN <<type, "_">> \o args[1]
    ELSE <<type, "_">> \o args[1] \o <<"_">> \o args[2]

\* CNFGenerator.get_var (set cover): the generator after the call
SC_get_var(g, type, args) == Intern(g, SC_var_name(type, args))

\* what that call returns
SC_var(g, type, args) ==
    SC_get_var(g, type, args).var_map[SC_var_name(type, args)]

RECURSIVE SC_get_x_vars(_, _)
\* [self.get_var('x', teacher.name) for teacher in teachers]
SC_get_x_vars(g, teachers) ==
    IF Len(teachers) = 0 THEN [g |-> g, vs |-> <<>>]
    ELSE LET a == <<Head(teachers).name>>
             r == SC_get_x_vars(SC_get_var(g, "x", a), Tail(teachers))
         IN  [g |-> r.g, vs |-> <<SC_var(g, "x", a)>> \o r.vs]

RECURSIVE SC_gen_pinning_from(_, _, _, _, _)
\* generate_cnf, first constraint, from teacher i and subject j on
SC_gen_pinning_from(g, teachers, subjects, i, j) ==
    IF i > Len(teachers) THEN g
    ELSE IF j > Len(subjects)
         THEN SC_gen_pinning_from(g, teachers, subjects, i + 1, 1)
    ELSE LET a == <<teachers[i].name, subjects[j]>>
             y_ij == SC_var(g, "y", a)
             g1 == SC_get_var(g, "y", a)
             g2 == IF subjects[j] \in teachers[i].subjects
                   THEN add_clause(g1, <<y_ij>>)
                   ELSE add_clause(g1, <<0 - y_ij>>)
         IN  SC_gen_pinning_from(g2, teachers, subjects, i, j + 1)

SC_gen_pinning(g, teachers, subjects) ==
    SC_gen_pinning_from(g, teachers, subjects, 1, 1)

RECURSIVE SC_gen_coverage_from(_, _, _, _)
\* generate_cnf, second constraint, from subject j on
SC_gen_coverage_from(g, teachers, subjects, j) ==
    IF j > Len(subjects) THEN g
    ELSE LET teachers_for_subject ==
                 SelectSeq(teachers, LAMBDA tc : subjects[j] \in tc.subjects)
             r == SC_get_x_vars(g, teachers_for_subject)
         IN  SC_gen_coverage_from(add_clause(r.g, r.vs), teachers, subjects, j + 1)

RECURSIVE SC_gen_coverage_skip_from(_, _, _, _)
SC_gen_coverage_skip_from(g, teachers, subjects, j) ==
    IF j > Len(subjects) THEN g
    ELSE LET teachers_for_subject ==
                 SelectSeq(teachers, LAMBDA tc : subjects[j] \in tc.subjects)
             r == SC_get_x_vars(g, teachers_for_subject)
             g1 == IF Len(r.vs) > 0 THEN add_clause(r.g, r.vs) ELSE r.g
         IN  SC_gen_coverage_skip_from(g1, teachers, subjects, j + 1)

\* the coverage step with "if clause:" before add_clause, as the NFA
\* generator does for its transition clauses
SC_gen_coverage_skip_empty(g, teachers, subjects) ==
    SC_gen_coverage_skip_from(g, teachers, subjects, 1)

SC_gen_coverage(g, teachers, subjects) ==
    SC_gen_coverage_from(g, teachers, subjects, 1)

RECURSIVE combinations(_, _)
\* itertools.combinations(xs, r) for r >= 0, in its order
combinations(xs, r) ==
    IF r = 0 THEN << <<>> >>
    ELSE IF Len(xs) < r THEN <<>>
    ELSE LET with == combinations(Tail(xs), r - 1)
         IN  [i \in DOMAIN with |-> <<Head(xs)>> \o with[i]]
                 \o combinations(Tail(xs), r)

\* itertools.combinations raises ValueError("r must be non-negative")
combinations_raises(r) == r < 0

Negated(vs) == [i \in DOMAIN vs |-> 0 - vs[i]]

RECURSIVE SC_gen_subsets(_, _, _)
\* one clause per subset: the x variables of its teachers, negated or not
SC_gen_subsets(g, subsets, negate) ==
    IF Len(subsets) = 0 THEN g
    ELSE LET r == SC_get_x_vars(g, Head(subsets))
             clause == IF negate THEN Negated(r.vs) ELSE r.vs
         IN  SC_gen_subsets(add_clause(r.g, clause), Tail(subsets), negate)

\* generate_cnf, third constraint: at most k teachers
SC_gen_at_most(g, teachers, k) ==
    SC_gen_subsets(g, combinations(teachers, k + 1), TRUE)

\* generate_cnf, third constraint: at least k teachers (n - k + 1 >= 0)
SC_gen_at_least(g, teachers, k) ==
    SC_gen_subsets(g, combinations(teachers, Len(teachers) - k + 1), FALSE)

\* generate_cnf (set cover) as a whole, for n - k + 1 >= 0
SC_generate_cnf(g, teachers, subjects, k) ==
    SC_gen_at_least(
        SC_gen_at_most(
            SC_gen_coverage(SC_gen_pinning(g, teachers, subjects), teachers, subjects),
            teachers, k),
        teachers, k)

\* one clause line of write_dimacs: " ".join(map(str, clause)) + " 0\n"
SC_dimacs_line(clause) ==
    Join([i \in DOMAIN clause |-> IntStr(clause[i])], <<" ">>) \o <<" ", "0", "\n">>

\* CNFGenerator.write_dimacs (set cover): the text written to the file
SC_write_dimacs(g) ==
    LET num_vars == g.next_var - 1
        num_clauses == Len(g.clauses)
    IN  <<"p", " ", "c", "n", "f", " ">> \o IntStr(num_vars) \o <<" ">>
            \o IntStr(num_clauses) \o <<"\n">>
            \o Concat([i \in DOMAIN g.clauses |-> SC_dimacs_line(g.clauses[i])])

\* one clause of write_pretty (set cover)
SC_pretty_clause(g, clause) ==
    LET var_mapping == get_var_mapping(g)
        lit(v) == (IF v > 0 THEN <<>> ELSE <<"-">>)
                      \o var_mapping[IF v < 0 THEN 0 - v ELSE v]
    IN  <<"(">> \o Join([i \in DOMAIN clause |-> lit(clause[i])], <<" ", "|", " ">>)
            \o <<")", " ", "&", "\n">>

\* CNFGenerator.write_pretty (set cover): the text written to the file
SC_write_pretty(g) ==
    DropLast3(Concat([i \in DOMAIN g.clauses |-> SC_pretty_clause(g, g.clauses[i])]))

(***************************************************************************)
(* Ex2/SET-COVER: solver.py                                                *)
(***************************************************************************)
\* TeacherSolver._extract_teachers
SC_extract_teachers(m, var_mapping) ==
    LET selected == SelectSeq(m, LAMBDA v :
                        v > 0 /\ v \in DOMAIN var_mapping
                              /\ var_mapping[v][1] = "x")
    IN  [i \in DOMAIN selected |-> Split(var_mapping[selected[i]], "_")[2]]

(***************************************************************************)
(* Inputs of the set-cover pipeline.                                       *)
(***************************************************************************)
TeacherNames == {<<"a">>, <<"b">>, <<"a", "_">>}

\* lists over the subjects "m" and "_m"
SubjectLists == {<<>>, << <<"m">> >>, << <<"_", "m">> >>, << <<"m">>, <<"_", "m">> >>}

TeacherRecords == [name : TeacherNames, subjects : SubjectLists]

\* the teacher lists of an input: at most two records
TeacherLists ==
    {<<>>} \cup {<<r>> : r \in TeacherRecords}
           \cup {<<r1, r2>> : r1 \in TeacherRecords, r2 \in TeacherRecords}

SC_Inputs == [teachers : TeacherLists, subjects : SubjectLists, k : 0..MaxK]

InitSC ==
    /\ prog = "sc"
    /\ pc = "construct"
    /\ inp \in SC_Inputs
    /\ obj = <<>>
    /\ order = <<>>
    /\ gen = NewGenerator
    /\ t = 0
    /\ cnf_file = <<>>
    /\ txt_file = <<>>
    /\ written = {}
    /\ model = <<>>
    /\ result = NoResult
    /\ exit = "running"
    /\ hist = NoHist
    /\ frame = NoFrame

(***************************************************************************)
(* Ex2/SET-COVER: main.py                                                  *)
(***************************************************************************)
\* problem = TeacherSubjectSetCover.from_dict(data)
\* generator = CNFGenerator(problem)
\* The teachers and subjects are Python sets: the order in which this
\* process iterates over them is fixed here, and may be any order.
SC_Construct ==
    /\ prog = "sc" /\ pc = "construct"
    /\ LET p == SC_from_dict(inp)
       IN  IF SC_validate_structure(p)
           THEN /\ obj' = p
                /\ \E tp \in Perms(p.teachers), sp \in Perms(p.subjects) :
                       order' = [teachers |-> tp, subjects |-> sp]
                /\ gen' = NewGenerator
                /\ pc' = "gen_pinning"
                /\ exit' = exit
           ELSE /\ Abort("ValueError")
                /\ UNCHANGED <<obj, order, gen>>
    /\ UNCHANGED <<frame, prog, inp, t, cnf_file, txt_file, written, model, result,
                   hist>>

\* generate_cnf: the capability clauses
SC_GenPinning ==
    /\ prog = "sc" /\ pc = "gen_pinning"
    /\ gen' = SC_gen_pinning(gen, order.teachers, order.subjects)
    /\ pc' = "gen_coverage"
    /\ UNCHANGED <<frame, prog, inp, obj, order, t, cnf_file, txt_file, written,
                   model, result, exit, hist>>

\* generate_cnf: the coverage clauses
SC_GenCoverage ==
    /\ prog = "sc" /\ pc = "gen_coverage"
    /\ gen' = SC_gen_coverage(gen, order.teachers, order.subjects)
    /\ pc' = "gen_at_most"
    /\ UNCHANGED <<frame, prog, inp, obj, order, t, cnf_file, txt_file, written,
                   model, result, exit, hist>>

\* generate_cnf: at most k teachers (k + 1 > 0: combinations cannot raise)
SC_GenAtMost ==
    /\ prog = "sc" /\ pc = "gen_at_most"
    /\ gen' = SC_gen_at_most(gen, order.teachers, obj.k)
    /\ pc' = "gen_at_least"
    /\ UNCHANGED <<frame, prog, inp, obj, order, t, cnf_file, txt_file, written,
                   model, result, exit, hist>>

\* generate_cnf: at least k teachers; combinations raises ValueError for
\* n - k + 1 < 0, which main catches
SC_GenAtLeast ==
    /\ prog = "sc" /\ pc = "gen_at_least"
    /\ IF combinations_raises(Len(order.teachers) - obj.k + 1)
       THEN /\ Abort("ValueError")
            /\ gen' = gen
       ELSE /\ gen' = SC_gen_at_least(gen, order.teachers, obj.k)
            /\ pc' = "write_dimacs"
            /\ exit' = exit
    /\ UNCHANGED <<frame, prog, inp, obj, order, t, cnf_file, txt_file, written,
                   model, result, hist>>

\* generator.write_dimacs(output_cnf)
SC_WriteDimacs ==
    /\ prog = "sc" /\ pc = "write_dimacs"
    /\ cnf_file' = SC_write_dimacs(gen)
    /\ written' = written \cup {"cnf"}
    /\ pc' = "write_pretty"
    /\ UNCHANGED <<frame, prog, inp, obj, order, gen, t, txt_file, model, result,
                   exit, hist>>

\* generator.write_pretty(output_human_readable)
SC_WritePretty ==
    /\ prog = "sc" /\ pc = "write_pretty"
    /\ txt_file' = SC_write_pretty(gen)
    /\ written' = written \cup {"txt"}
    /\ pc' = "solve"
    /\ UNCHANGED <<frame, prog, inp, obj, order, gen, t, cnf_file, model, result,
                   exit, hist>>

\* solver = TeacherSolver(output_cnf, generator.get_var_mapping())
\* is_satisfiable, selected_teachers = solver.solve()
SC_Solve ==
    /\ prog = "sc" /\ pc = "solve"
    /\ LET formula == ReadDimacs(cnf_file)
           var_mapping == get_var_mapping(gen)
       IN  IF Models(formula) = {}
           THEN /\ model' = model
                /\ result' = [sat |-> FALSE, answer |-> <<>>]
           ELSE \E A \in Models(formula) :
                  LET m == ModelList(A, formula.nv)
                  IN  /\ model' = m
                      /\ result' = [sat |-> TRUE,
                                    answer |-> SC_extract_teachers(m, var_mapping)]
    /\ pc' = "report"
    /\ UNCHANGED <<frame, prog, inp, obj, order, gen, t, cnf_file, txt_file,
                   written, exit, hist>>

\* the printed result
SC_Report ==
    /\ prog = "sc" /\ pc = "report"
    /\ pc' = "done"
    /\ exit' = "ok"
    /\ UNCHANGED <<frame, prog, inp, obj, order, gen, t, cnf_file, txt_file,
                   written, model, result, hist>>

NextSC ==
    \/ SC_Construct
    \/ SC_GenPinning
    \/ SC_GenCoverage
    \/ SC_GenAtMost
    \/ SC_GenAtLeast
    \/ SC_WriteDimacs
    \/ SC_WritePretty
    \/ SC_Solve
    \/ SC_Report

SpecSC == InitSC /\ [][NextSC]_vars

(***************************************************************************)
(* Both pipelines.                                                         *)
(***************************************************************************)
Init == InitNFA \/ InitSC

Next == NextNFA \/ NextSC

Spec == Init /\ [][Next]_vars

(***************************************************************************)
(* generate_cnf followed call by call: every get_var and every add_clause  *)
(* is one step.  frame holds the locals: at (position inside the current   *)
(* loop pass), i (elements of the list comprehension done), j (index of    *)
(* the pass, or of the pair), vs (the list being built), cur (the variable *)
(* obtained before the list).                                              *)
(***************************************************************************)
\* the locals at the start of a list comprehension
Fresh == [at |-> "vars", i |-> 0, j |-> 0, vs |-> <<>>, cur |-> 0]

\* the inputs that reach generate_cnf in Ex2/NFA/main.py
NFA_GenInputs ==
    {d \in NFA_Inputs :
        /\ NFA_validate_structure(d)
        /\ \A i \in DOMAIN d.input_string :
               d.input_string[i] \in Range(d.alphabet)}

InitGenNFA ==
    /\ prog = "nfa"
    /\ pc = "gen_initial"
    /\ inp \in NFA_GenInputs
    /\ obj = [states |-> inp.states, alphabet |-> inp.alphabet,
              transitions |-> inp.transitions,
              initial_states |-> inp.initial_states,
              final_states |-> inp.final_states]
    /\ order = <<>>
    /\ gen = NewGenerator
    /\ t = 0
    /\ cnf_file = <<>>
    /\ txt_file = <<>>
    /\ written = {}
    /\ model = <<>>
    /\ result = NoResult
    /\ exit = "running"
    /\ hist = NoHist
    /\ frame = NoFrame

\* the states the list comprehension at the current position runs over
NFA_comp_states ==
    CASE pc = "gen_initial" -> obj.initial_states
      [] pc = "gen_transition" ->
             get_next_states(obj, obj.states[frame.j], inp.input_string[t + 1])
      [] pc = "gen_exactly_one" -> obj.states
      [] pc = "gen_acceptance" -> obj.final_states

\* the time argument of its get_var calls
NFA_comp_time ==
    CASE pc = "gen_initial" -> 0
      [] pc = "gen_transition" -> t + 1
      [] pc = "gen_exactly_one" -> t
      [] pc = "gen_acceptance" -> Len(inp.input_string)

\* generator.generate_cnf() is entered
NFA_Call_generate_cnf ==
    /\ prog = "nfa" /\ pc = "gen_initial" /\ frame.at = "idle"
    /\ frame' = Fresh
    /\ UNCHANGED <<prog, pc, inp, obj, order, gen, t, cnf_file, txt_file,
                   written, model, result, exit, hist>>

\* one self.get_var(s, time) of a list comprehension
NFA_Step_GetVar ==
    /\ prog = "nfa" /\ frame.at = "vars"
    /\ frame.i < Len(NFA_comp_states)
    /\ LET s == NFA_comp_states[frame.i + 1]
       IN  /\ gen' = NFA_get_var(gen, s, NFA_comp_time)
           /\ frame' = [frame EXCEPT !.i = @ + 1,
                            !.vs = Append(@, NFA_var(gen, s, NFA_comp_time))]
    /\ UNCHANGED <<prog, pc, inp, obj, order, t, cnf_file, txt_file,
                   written, model, result, exit, hist>>

\* the add_clause that follows a list comprehension
NFA_Step_AddClause ==
    /\ prog = "nfa" /\ frame.at = "vars"
    /\ frame.i = Len(NFA_comp_states)
    /\ pc = "gen_transition" => Len(frame.vs) > 0
    /\ gen' = add_clause(gen, IF pc = "gen_transition"
                              THEN <<0 - frame.cur>> \o frame.vs
                              ELSE frame.vs)
    /\ frame' = IF pc \in {"gen_initial", "gen_exactly_one"}
                THEN [frame EXCEPT !.at = "pairs", !.j = 0]
                ELSE [frame EXCEPT !.at = "end"]
    /\ UNCHANGED <<prog, pc, inp, obj, order, t, cnf_file, txt_file,
                   written, model, result, exit, hist>>

\* "if next_vars:" is false: no clause for this state and time
NFA_Step_NoClause ==
    /\ prog = "nfa" /\ pc = "gen_transition" /\ frame.at = "vars"
    /\ frame.i = Len(NFA_comp_states)
    /\ Len(frame.vs) = 0
    /\ frame' = [frame EXCEPT !.at = "end"]
    /\ UNCHANGED <<prog, pc, inp, obj, order, gen, t, cnf_file, txt_file,
                   written, model, result, exit, hist>>

\* one self.add_clause([-s1, -s2]) of the nested loops with i < j
NFA_Step_AddPair ==
    /\ prog = "nfa" /\ frame.at = "pairs"
    /\ frame.j < Len(AtMostOne(frame.vs))
    /\ gen' = add_clause(gen, AtMostOne(frame.vs)[frame.j + 1])
    /\ frame' = [frame EXCEPT !.j = @ + 1]
    /\ UNCHANGED <<prog, pc, inp, obj, order, t, cnf_file, txt_file,
                   written, model, result, exit, hist>>

\* current_var = self.get_var(state, t)
NFA_Step_Current ==
    /\ prog = "nfa" /\ pc = "gen_transition" /\ frame.at = "cur"
    /\ gen' = NFA_get_var(gen, obj.states[frame.j], t)
    /\ frame' = [Fresh EXCEPT !.j = frame.j,
                              !.cur = NFA_var(gen, obj.states[frame.j], t)]
    /\ UNCHANGED <<prog, pc, inp, obj, order, t, cnf_file, txt_file,
                   written, model, result, exit, hist>>

\* the loop pass at the current position has made all its calls
NFA_PassDone ==
    \/ frame.at = "end"
    \/ frame.at = "pairs" /\ frame.j = Len(AtMostOne(frame.vs))

\* control goes to the next pass of the loop, or to the next loop
NFA_Step_Loop ==
    /\ prog = "nfa" /\ NFA_PassDone
    /\ CASE pc = "gen_initial" ->
                IF Len(inp.input_string) > 0
                THEN /\ pc' = "gen_transition"
                     /\ t' = 0
                     /\ frame' = [Fresh EXCEPT !.at = "end"]
                ELSE /\ pc' = "gen_exactly_one"
                     /\ t' = 0
                     /\ frame' = Fresh
         [] pc = "gen_transition" ->
                IF frame.j < Len(obj.states)
                THEN /\ pc' = pc
                     /\ t' = t
                     /\ frame' = [Fresh EXCEPT !.at = "cur", !.j = frame.j + 1]
                ELSE IF t + 1 < Len(inp.input_string)
                THEN /\ pc' = pc
                     /\ t' = t + 1
                     /\ frame' = [Fresh EXCEPT !.at = "end"]
                ELSE /\ pc' = "gen_exactly_one"
                     /\ t' = 0
                     /\ frame' = Fresh
         [] pc = "gen_exactly_one" ->
                IF t + 1 < Len(inp.input_string) + 1
                THEN /\ pc' = pc
                     /\ t' = t + 1
                     /\ frame' = Fresh
                ELSE /\ pc' = "gen_acceptance"
                     /\ t' = t
                     /\ frame' = Fresh
         [] pc = "gen_acceptance" ->
                /\ pc' = "write_dimacs"
                /\ t' = t
                /\ frame' = NoFrame
    /\ UNCHANGED <<prog, inp, obj, order, gen, cnf_file, txt_file,
                   written, model, result, exit, hist>>

NextGenNFA ==
    \/ NFA_Call_generate_cnf
    \/ NFA_Step_GetVar
    \/ NFA_Step_AddClause
    \/ NFA_Step_NoClause
    \/ NFA_Step_AddPair
    \/ NFA_Step_Current
    \/ NFA_Step_Loop

\* the inputs that reach generate_cnf in Ex2/SET-COVER/main.py
SC_GenInputs == {d \in SC_Inputs : SC_validate_structure(SC_from_dict(d))}

InitGenSC ==
    /\ prog = "sc"
    /\ pc = "gen_pinning"
    /\ inp \in SC_GenInputs
    /\ obj = SC_from_dict(inp)
    /\ \E tp \in Perms(obj.teachers), sp \in Perms(obj.subjects) :
           order = [teachers |-> tp, subjects |-> sp]
    /\ gen = NewGenerator
    /\ t = 0
    /\ cnf_file = <<>>
    /\ txt_file = <<>>
    /\ written = {}
    /\ model = <<>>
    /\ result = NoResult
    /\ exit = "running"
    /\ hist = NoHist
    /\ frame = NoFrame

\* "for teacher in self.teachers: for subject in self.subjects": the
\* (teacher, subject) pairs in the order of the nested loops
SC_pin_pairs ==
    LET m == Len(order.subjects)
    IN  [k \in 1..(Len(order.teachers) * m) |->
            <<order.teachers[((k - 1) \div m) + 1],
              order.subjects[((k - 1) % m) + 1]>>]

\* the subsets the loop at the current position runs over
SC_subsets ==
    IF pc = "gen_at_most" THEN combinations(order.teachers, obj.k + 1)
    ELSE combinations(order.teachers, Len(order.teachers) - obj.k + 1)

\* number of passes of the loop at the current position
SC_passes ==
    CASE pc = "gen_pinning" -> Len(SC_pin_pairs)
      [] pc = "gen_coverage" -> Len(order.subjects)
      [] pc \in {"gen_at_most", "gen_at_least"} -> Len(SC_subsets)

\* the teachers the list comprehension of the current pass runs over
SC_comp_teachers ==
    IF pc = "gen_coverage"
    THEN SelectSeq(order.teachers,
                   LAMBDA tc : order.subjects[frame.j] \in tc.subjects)
    ELSE SC_subsets[frame.j]

\* generator.generate_cnf() is entered
SC_Call_generate_cnf ==
    /\ prog = "sc" /\ pc = "gen_pinning" /\ frame.at = "idle"
    /\ frame' = [Fresh EXCEPT !.at = "end"]
    /\ UNCHANGED <<prog, pc, inp, obj, order, gen, t, cnf_file, txt_file,
                   written, model, result, exit, hist>>

\* y_ij = self.get_var('y', teacher.name, subject)
SC_Step_PinVar ==
    /\ prog = "sc" /\ pc = "gen_pinning" /\ frame.at = "cur"
    /\ LET a == <<SC_pin_pairs[frame.j][1].name, SC_pin_pairs[frame.j][2]>>
       IN  /\ gen' = SC_get_var(gen, "y", a)
           /\ frame' = [frame EXCEPT !.at = "add", !.cur = SC_var(gen, "y", a)]
    /\ UNCHANGED <<prog, pc, inp, obj, order, t, cnf_file, txt_file,
                   written, model, result, exit, hist>>

\* self.add_clause([y_ij]) or self.add_clause([-y_ij])
SC_Step_PinAdd ==
    /\ prog = "sc" /\ pc = "gen_pinning" /\ frame.at = "add"
    /\ gen' = add_clause(gen,
                  IF SC_pin_pairs[frame.j][2] \in SC_pin_pairs[frame.j][1].subjects
                  THEN <<frame.cur>>
                  ELSE <<0 - frame.cur>>)
    /\ frame' = [frame EXCEPT !.at = "end"]
    /\ UNCHANGED <<prog, pc, inp, obj, order, t, cnf_file, txt_file,
                   written, model, result, exit, hist>>

\* one self.get_var('x', teacher.name) of a list comprehension, negated
\* in the at-most loop
SC_Step_GetVar ==
    /\ prog = "sc" /\ frame.at = "vars"
    /\ frame.i < Len(SC_comp_teachers)
    /\ LET a == <<SC_comp_teachers[frame.i + 1].name>>
           v == SC_var(gen, "x", a)
       IN  /\ gen' = SC_get_var(gen, "x", a)
           /\ frame' = [frame EXCEPT !.i = @ + 1,
                            !.vs = Append(@, IF pc = "gen_at_most"
                                             THEN 0 - v ELSE v)]
    /\ UNCHANGED <<prog, pc, inp, obj, order, t, cnf_file, txt_file,
                   written, model, result, exit, hist>>

\* self.add_clause(clause)
SC_Step_AddClause ==
    /\ prog = "sc" /\ frame.at = "vars"
    /\ frame.i = Len(SC_comp_teachers)
    /\ gen' = add_clause(gen, frame.vs)
    /\ frame' = [frame EXCEPT !.at = "end"]
    /\ UNCHANGED <<prog, pc, inp, obj, order, t, cnf_file, txt_file,
                   written, model, result, exit, hist>>

\* control goes to the next pass of the loop, or to the next loop;
\* combinations(self.teachers, n - self.k + 1) raises when its size is
\* negative
SC_Step_Loop ==
    /\ prog = "sc" /\ frame.at = "end"
    /\ IF pc = "gen_at_least"
             /\ combinations_raises(Len(order.teachers) - obj.k + 1)
       THEN /\ Abort("ValueError")
            /\ frame' = NoFrame
       ELSE /\ exit' = exit
            /\ IF frame.j < SC_passes
               THEN /\ pc' = pc
                    /\ frame' = [Fresh EXCEPT
                                    !.at = IF pc = "gen_pinning" THEN "cur"
                                           ELSE "vars",
                                    !.j = frame.j + 1]
               ELSE /\ pc' = CASE pc = "gen_pinning" -> "gen_coverage"
                               [] pc = "gen_coverage" -> "gen_at_most"
                               [] pc = "gen_at_most" -> "gen_at_least"
                               [] pc = "gen_at_least" -> "write_dimacs"
                    /\ frame' = IF pc = "gen_at_least" THEN NoFrame
                                ELSE [Fresh EXCEPT !.at = "end"]
    /\ UNCHANGED <<prog, inp, obj, order, gen, t, cnf_file, txt_file,
                   written, model, result, hist>>

NextGenSC ==
    \/ SC_Call_generate_cnf
    \/ SC_Step_PinVar
    \/ SC_Step_PinAdd
    \/ SC_Step_GetVar
    \/ SC_Step_AddClause
    \/ SC_Step_Loop

InitGen == InitGenNFA \/ InitGenSC

NextGen == NextGenNFA \/ NextGenSC

SpecGen == InitGen /\ [][NextGen]_vars

(***************************************************************************)
(* The interner alone: any sequence of get_var calls on one generator of   *)
(* either kind.                                                            *)
(***************************************************************************)
InitInterner ==
    /\ prog = "interner"
    /\ pc = "get_var"
    /\ inp = <<>>
    /\ obj = <<>>
    /\ order = <<>>
    /\ gen = NewGenerator
    /\ t = 0
    /\ cnf_file = <<>>
    /\ txt_file = <<>>
    /\ written = {}
    /\ model = <<>>
    /\ result = NoResult
    /\ exit = "running"
    /\ hist = NoHist
    /\ frame = NoFrame

\* a call self.get_var(state, time) of the NFA generator
Interner_NFA_get_var ==
    /\ prog = "interner"
    /\ \E state \in {<<"p">>, <<"q", "_", "1">>}, time \in 0..1 :
          /\ gen' = NFA_get_var(gen, state, time)
          /\ hist' = [name |-> NFA_var_name(state, time),
                      ret |-> NFA_var(gen, state, time),
                      raised |-> FALSE,
                      before |-> gen,
                      seen |-> hist.seen \cup {NFA_var_name(state, time)}]
    /\ UNCHANGED <<frame, prog, pc, inp, obj, order, t, cnf_file, txt_file, written,
                   model, result, exit>>

\* a call self.get_var(type, *args) of the set-cover generator
Interner_SC_get_var ==
    /\ prog = "interner"
    /\ \E type \in {"x", "y", "z"} :
          LET args == <<<<"a">>, <<"m">>>>
          IN  IF SC_get_var_raises(type)
              THEN /\ gen' = gen
                   /\ hist' = [hist EXCEPT !.raised = TRUE, !.before = gen]
              ELSE /\ gen' = SC_get_var(gen, type, args)
                   /\ hist' = [name |-> SC_var_name(type, args),
                               ret |-> SC_var(gen, type, args),
                               raised |-> FALSE,
                               before |-> gen,
                               seen |-> hist.seen \cup {SC_var_name(type, args)}]
    /\ UNCHANGED <<frame, prog, pc, inp, obj, order, t, cnf_file, txt_file, written,
                   model, result, exit>>

NextInterner == Interner_NFA_get_var \/ Interner_SC_get_var

SpecInterner == InitInterner /\ [][NextInterner]_vars

(***************************************************************************)
(* Notions used to state the properties.                                   *)
(***************************************************************************)
\* the CNF formula held by a generator
Formula(g) == [nv |-> g.next_var - 1, clauses |-> g.clauses]

Satisfiable(f) == Models(f) # {}

\* the problem object has been constructed (validation passed)
Constructed == DOMAIN obj # {}

\* main ended in one of its except clauses
Failed == exit \in {"ValueError", "Exception"}

\* path is an accepting run of n on word
ValidRun(n, word, path) ==
    /\ Len(path) = Len(word) + 1
    /\ path[1] \in Range(n.initial_states)
    /\ \A i \in 1..Len(word) :
          path[i + 1] \in Range(get_next_states(n, path[i], word[i]))
    /\ path[Len(path)] \in Range(n.final_states)

\* a required subject that no teacher of the instance can teach
Uncovered(p) == {s \in p.subjects : \A tc \in p.teachers : s \notin tc.subjects}

\* the coverage step of generate_cnf has run
CoverageDone ==
    /\ prog = "sc"
    /\ Constructed
    /\ pc \notin {"construct", "gen_pinning", "gen_coverage"}

\* two records of the input list carry the same name
DuplicateNames(data) ==
    \E i \in DOMAIN data.teachers : \E j \in DOMAIN data.teachers :
        i # j /\ data.teachers[i].name = data.teachers[j].name

\* every literal of every clause of g is nonzero, and its magnitude is an
\* index below next_var that var_map has issued
LiteralsIssued(g) ==
    \A c \in DOMAIN g.clauses : \A l \in DOMAIN g.clauses[c] :
        LET lit == g.clauses[c][l]
            mag == IF lit < 0 THEN 0 - lit ELSE lit
        IN  /\ lit # 0
            /\ mag \in 1..(g.next_var - 1)
            /\ \E n \in DOMAIN g.var_map : g.var_map[n] = mag

\* a step leaves the clauses already stored where they were
AppendOnly ==
    /\ Len(gen.clauses) <= Len(gen'.clauses)
    /\ SubSeq(gen'.clauses, 1, Len(gen.clauses)) = gen.clauses

\* g holds a transition clause for state s at time tm: the negated
\* variable of (s, tm) together with a positive literal
HasTransitionClause(g, s, tm) ==
    \E c \in DOMAIN g.clauses :
        /\ \E l \in DOMAIN g.clauses[c] :
               g.clauses[c][l] = 0 - g.var_map[NFA_var_name(s, tm)]
        /\ \E l \in DOMAIN g.clauses[c] : g.clauses[c][l] > 0

\* s has no successor on the symbol read at time tm
DeadEnd(n, word, s, tm) == Len(get_next_states(n, s, word[tm + 1])) = 0

\* some set of exactly k teachers of p can teach every required subject
HasCover(p) ==
    \E C \in SUBSET p.teachers :
        /\ Cardinality(C) = p.k
        /\ p.subjects \subseteq UNION {tc.subjects : tc \in C}

\* the store of g holds the unit clauses [v] and [-v] for an assign
\* variable v
OppositePins(g) ==
    \E n \in DOMAIN g.var_map :
        /\ n[1] = "y"
        /\ \E i \in DOMAIN g.clauses : g.clauses[i] = <<g.var_map[n]>>
        /\ \E j \in DOMAIN g.clauses : g.clauses[j] = <<0 - g.var_map[n]>>

(***************************************************************************)
(* C1: for every valid automaton and word, the NFA formula is satisfiable  *)
(* iff NFA.accepts accepts the word.                                       *)
(***************************************************************************)
C1_SatIffAccepts ==
    (prog = "nfa" /\ pc = "write_dimacs") =>
        (Satisfiable(Formula(gen)) <=> accepts(obj, inp.input_string))

(***************************************************************************)
(* C2: the path decoded from any satisfying assignment has n + 1 states,   *)
(* starts in an initial state, follows get_next_states on every symbol and *)
(* ends in a final state.                                                  *)
(***************************************************************************)
C2_DecodedPathValid ==
    (prog = "nfa" /\ pc = "report" /\ result.sat) =>
        ValidRun(obj, inp.input_string, result.answer)

(***************************************************************************)
(* C3: the teachers decoded from any satisfying assignment are exactly k   *)
(* distinct teachers of the instance, and together they can teach every    *)
(* required subject.                                                       *)
(***************************************************************************)
C3_DecodedCover ==
    (prog = "sc" /\ pc = "report" /\ result.sat) =>
        LET names == Range(result.answer)
            chosen == {tc \in obj.teachers : tc.name \in names}
        IN  /\ Len(result.answer) = obj.k
            /\ Cardinality(names) = obj.k
            /\ names \subseteq {tc.name : tc \in obj.teachers}
            /\ obj.subjects \subseteq UNION {tc.subjects : tc \in chosen}

(***************************************************************************)
(* C4: for every valid instance with k greater than the number of          *)
(* teachers, the run ends normally with the answer "unsatisfiable".        *)
(***************************************************************************)
C4_LargeKUnsat ==
    (/\ prog = "sc"
     /\ pc \in {"exit", "done"}
     /\ SC_validate_structure(SC_from_dict(inp))
     /\ inp.k > Cardinality(SC_from_dict(inp).teachers)) =>
        (pc = "done" /\ exit = "ok" /\ ~result.sat)

(***************************************************************************)
(* C5: if a required subject has no capable teacher, the coverage step     *)
(* has stored an empty clause and the formula is unsatisfiable, for every  *)
(* k; a run that reaches the solver reports "unsatisfiable".               *)
(***************************************************************************)
C5_UncoveredUnsat ==
    (CoverageDone /\ Uncovered(obj) # {}) =>
        /\ \E i \in DOMAIN gen.clauses : gen.clauses[i] = <<>>
        /\ ~Satisfiable(Formula(gen))
        /\ pc = "done" => ~result.sat

\* an infeasible instance has gone through the whole pipeline
C5_Witness ==
    /\ CoverageDone
    /\ Uncovered(obj) # {}
    /\ Cardinality(obj.teachers) = 2
    /\ pc = "done"
    /\ ~result.sat

(***************************************************************************)
(* C6: the DIMACS text is the header "p cnf <nvars> <nclauses>", nvars the *)
(* number of interned variables and nclauses the number of stored clauses, *)
(* then one line per clause in insertion order, its literals separated by  *)
(* single spaces and closed by 0; reading the text back gives the same     *)
(* variable count and the same clauses, empty clauses included.            *)
(***************************************************************************)
C6_DimacsRoundTrip ==
    ("cnf" \in written) =>
        LET f == ReadDimacs(cnf_file)
            lines == Split(cnf_file, "\n")
        IN  /\ f.nv = gen.next_var - 1
            /\ f.nv = Cardinality(DOMAIN gen.var_map)
            /\ f.nclauses = Len(gen.clauses)
            /\ f.clauses = gen.clauses
            /\ Len(lines) = Len(gen.clauses) + 2
            /\ lines[Len(lines)] = <<>>
            /\ lines[1] = <<"p", " ", "c", "n", "f", " ">> \o IntStr(f.nv)
                              \o <<" ">> \o IntStr(f.nclauses)
            /\ \A i \in DOMAIN gen.clauses :
                  lines[i + 1] =
                      Join([j \in DOMAIN gen.clauses[i] |-> IntStr(gen.clauses[i][j])],
                           <<" ">>) \o <<" ", "0">>

\* a written formula with an empty clause, a negative literal, a clause of
\* several literals and a two-digit clause count
C6_Witness ==
    /\ "cnf" \in written
    /\ \E i \in DOMAIN gen.clauses : gen.clauses[i] = <<>>
    /\ \E i \in DOMAIN gen.clauses :
          Len(gen.clauses[i]) >= 2 /\ gen.clauses[i][1] < 0
    /\ Len(gen.clauses) >= 10

(***************************************************************************)
(* C7: after any sequence of get_var calls the interner maps the names     *)
(* seen one-to-one onto 1..N, N = next_var - 1; a new name gets the next   *)
(* unused integer (1 for the first), a known name gets its earlier index   *)
(* and changes nothing, and get_var_mapping is the inverse of var_map.     *)
(***************************************************************************)
C7_InternerBijective ==
    LET vm == gen.var_map
        N == gen.next_var - 1
        inv == get_var_mapping(gen)
        old == hist.before
    IN  /\ DOMAIN vm = hist.seen
        /\ N = Cardinality(hist.seen)
        /\ {vm[n] : n \in DOMAIN vm} = 1..N
        /\ \A n \in DOMAIN vm : \A m \in DOMAIN vm : vm[n] = vm[m] => n = m
        /\ DOMAIN inv = 1..N
        /\ \A n \in DOMAIN vm : inv[vm[n]] = n
        /\ \A v \in 1..N : vm[inv[v]] = v
        /\ hist.raised => gen = old
        /\ (hist.seen # {} /\ ~hist.raised) =>
              IF hist.name \in DOMAIN old.var_map
              THEN /\ gen = old
                   /\ hist.ret = old.var_map[hist.name]
              ELSE /\ hist.ret = old.next_var
                   /\ (DOMAIN old.var_map = {}) => hist.ret = 1
                   /\ gen.next_var = old.next_var + 1
                   /\ vm[hist.name] = hist.ret
                   /\ DOMAIN vm = DOMAIN old.var_map \cup {hist.name}
                   /\ \A n \in DOMAIN old.var_map : vm[n] = old.var_map[n]

\* a repeated call on an interner that holds several names of both kinds
C7_Witness ==
    /\ prog = "interner"
    /\ ~hist.raised
    /\ hist.name \in DOMAIN hist.before.var_map
    /\ hist.ret = 2
    /\ gen.next_var = 5
    /\ <<"x", "_", "a">> \in DOMAIN gen.var_map

(***************************************************************************)
(* C8: a run that ends in an error raises it before the first clause is    *)
(* added and before either output file is written.                         *)
(***************************************************************************)
C8_ErrorsBeforeOutput ==
    Failed => (Len(gen.clauses) = 0 /\ written = {})

(***************************************************************************)
(* C9: an input in which two teacher records carry the same name, or with  *)
(* k <= 0, is rejected with a ValueError; every accepted instance has      *)
(* unique teacher names.                                                   *)
(***************************************************************************)
C9_DuplicatesRejected ==
    (prog = "sc" /\ pc # "construct") =>
        /\ (DuplicateNames(inp) \/ inp.k <= 0) =>
               (exit = "ValueError" /\ ~Constructed)
        /\ Constructed =>
               \A t1 \in obj.teachers : \A t2 \in obj.teachers :
                   t1.name = t2.name => t1 = t2

(***************************************************************************)
(* C10: two encoding runs over the same instance give the same var_map and *)
(* the same clause sequence, whatever order the sets are iterated in.      *)
(***************************************************************************)
C10_Deterministic ==
    (pc = "write_dimacs") =>
        IF prog = "sc"
        THEN \A tp \in Perms(obj.teachers) : \A sp \in Perms(obj.subjects) :
                 SC_generate_cnf(NewGenerator, tp, sp, obj.k) = gen
        ELSE NFA_generate_cnf(NewGenerator, obj, inp.input_string) = gen

(***************************************************************************)
(* C11: for every satisfying assignment of the NFA formula the decoder     *)
(* does not fail; it returns n + 1 states, and its element for time t is   *)
(* the one state whose state@time variable is true at t, whatever the      *)
(* declared state names are.                                               *)
(***************************************************************************)
C11_DecoderTotal ==
    (prog = "nfa" /\ pc \in {"report", "exit"} /\ model # <<>>) =>
        /\ pc = "report"
        /\ Len(result.answer) = Len(inp.input_string) + 1
        /\ \A i \in 1..Len(result.answer) : \A s \in Range(obj.states) :
               (model[gen.var_map[NFA_var_name(s, i - 1)]] > 0)
                   <=> (s = result.answer[i])

(***************************************************************************)
(* C12: after every get_var and add_clause call of generate_cnf, in both   *)
(* encoders, every literal of every stored clause is nonzero with a        *)
(* magnitude in 1..next_var-1 that the interner has issued, and a step     *)
(* only appends to the store: the clauses already there keep their place.  *)
(***************************************************************************)
C12_StoreWellFormed ==
    /\ [] LiteralsIssued(gen)
    /\ [][AppendOnly]_vars

\* inside a list comprehension of the set-cover at-most loop: a variable
\* has been obtained for the clause being built, and the store already
\* holds clauses of both polarities
C12_Witness ==
    /\ prog = "sc" /\ pc = "gen_at_most"
    /\ frame.at = "vars" /\ frame.i > 0
    /\ \E c \in DOMAIN gen.clauses : \E l \in DOMAIN gen.clauses[c] :
           gen.clauses[c][l] < 0
    /\ \E c \in DOMAIN gen.clauses : \E l \in DOMAIN gen.clauses[c] :
           gen.clauses[c][l] > 0

(***************************************************************************)
(* C13: in the NFA formula a state with no successor on the symbol read at *)
(* time t has no transition clause for t, and still no satisfying          *)
(* assignment occupies such a state at a time t < n.                       *)
(***************************************************************************)
C13_DeadEndsExcluded ==
    (prog = "nfa" /\ pc = "write_dimacs") =>
        \A tm \in 0..(Len(inp.input_string) - 1) : \A s \in Range(obj.states) :
            DeadEnd(obj, inp.input_string, s, tm) =>
                /\ ~HasTransitionClause(gen, s, tm)
                /\ \A A \in Models(Formula(gen)) :
                       gen.var_map[NFA_var_name(s, tm)] \notin A

(***************************************************************************)
(* C14: for every valid set-cover instance with 1 <= k <= n the generated  *)
(* formula is satisfiable iff some k teachers can teach every required     *)
(* subject; for k = n, iff all the teachers together can.                  *)
(***************************************************************************)
C14_SatIffCover ==
    (/\ prog = "sc" /\ pc = "write_dimacs"
     /\ 1 <= obj.k /\ obj.k <= Cardinality(obj.teachers)) =>
        (Satisfiable(Formula(gen)) <=> HasCover(obj))

(***************************************************************************)
(* C15: the variable names are injective on propositions.  In a set-cover  *)
(* run distinct teachers get distinct select names, distinct (teacher,     *)
(* subject) pairs get distinct assign names and indices, and pinning       *)
(* stores no two unit clauses of opposite polarity on one variable; in an  *)
(* NFA run distinct (state, time) pairs get distinct names and indices.    *)
(***************************************************************************)
C15_NamesInjective ==
    (pc = "write_dimacs") =>
        IF prog = "sc"
        THEN /\ \A t1 \in obj.teachers : \A t2 \in obj.teachers :
                    SC_var_name("x", <<t1.name>>) = SC_var_name("x", <<t2.name>>)
                        => t1.name = t2.name
             /\ \A t1 \in obj.teachers : \A t2 \in obj.teachers :
                \A s1 \in obj.subjects : \A s2 \in obj.subjects :
                    LET n1 == SC_var_name("y", <<t1.name, s1>>)
                        n2 == SC_var_name("y", <<t2.name, s2>>)
                    IN  (n1 = n2 \/ gen.var_map[n1] = gen.var_map[n2])
                            => (t1.name = t2.name /\ s1 = s2)
             /\ ~OppositePins(gen)
        ELSE \A s1 \in Range(obj.states) : \A s2 \in Range(obj.states) :
             \A t1 \in 0..Len(inp.input_string) :
             \A t2 \in 0..Len(inp.input_string) :
                 LET n1 == NFA_var_name(s1, t1)
                     n2 == NFA_var_name(s2, t2)
                 IN  (n1 = n2 \/ gen.var_map[n1] = gen.var_map[n2])
                         => (s1 = s2 /\ t1 = t2)

====
